---------------------------- MODULE Spec2Model ----------------------------
(***************************************************************************)
(* A model of the melon application-server framework: the server          *)
(* environment (component / resource-handler registration), the server    *)
(* command life cycle with the admin start-up sequence, the filter chain   *)
(* with its recovery filter, the path-pattern router, and the REST         *)
(* resource adapter with content negotiation.                              *)
(*                                                                         *)
(* The module holds five sub-models over disjoint groups of variables.     *)
(* Every specification starts from the same initial state and moves only   *)
(* the variables of its own group.                                         *)
(***************************************************************************)
EXTENDS Integers, Sequences, FiniteSets, TLC

VARIABLES
    \* ---- ServerEnvironment (core/server.go) ----
    components,        \* env.components
    resourceHandlers,  \* env.resourceHandlers
    envStarted,        \* onStarting has run
    calls,             \* HandleResource calls made so far: <<handler, component>>
    \* ---- ServerCommand.Run and AdminEnvironment (core/admin.go) ----
    pc,                \* position of ServerCommand.Run
    trace,             \* life-cycle calls made by Run, in order
    runResult,         \* what Run gave back to its caller
    stepErr,           \* the error the failing step returned
    deferred,          \* deferred calls of Run, innermost last
    handlers,          \* AdminEnvironment.handlers
    tasks,             \* AdminEnvironment.tasks
    adminRoutes,       \* route table of AdminEnvironment.Router
    adminFatal,        \* Router.Handle failed fatally during start
    \* ---- Router ----
    routes,            \* the route table, in registration order
    routerFatal,       \* a registration failed fatally
    serving,           \* the server has begun to serve
    lastReq,           \* the last request dispatched: <<method, path>>
    lastOutcome,       \* what Match gave for it
    \* ---- filter.Chain and recovery.Filter ----
    chain,             \* the filters of the chain, the terminal one last
    cpc,               \* "build", "idle", "run", "panicking", "done"
    cIdx,              \* the filter the request has reached
    request,           \* the request being served
    resp,              \* the response written so far
    invoked,           \* filters invoked for this request, in order
    failure,           \* the value of the panic in flight or caught
    respAtFailure,     \* the response as it was when the panic was raised
    cReturn,           \* how ServeHTTP came back: "normal" or "panic"
    logged,            \* failures logged by the recovery filter
    served,            \* requests served so far
    \* ---- rest.Application and the resource adapter ----
    providers,         \* restHandler.providers
    rpc,               \* "init", "failed", "idle", "inMethod", "afterDecode", "returned"
    rReq,              \* the request the adapter is handling
    rLog,              \* what happened for this request, in order
    rDecodeErr,        \* what RequestBodyFromContext returned
    rResult,           \* what the verb method returned: value and error
    rSelected,         \* the provider negotiated for the response
    rResp              \* the response written

envVars == <<components, resourceHandlers, envStarted, calls>>
runVars == <<pc, trace, runResult, stepErr, deferred, handlers, tasks,
             adminRoutes, adminFatal>>
routerVars == <<routes, routerFatal, serving, lastReq, lastOutcome>>
chainVars == <<chain, cpc, cIdx, request, resp, invoked, failure, respAtFailure,
               cReturn, logged, served>>
restVars == <<providers, rpc, rReq, rLog, rDecodeErr, rResult, rSelected, rResp>>
vars == <<envVars, runVars, routerVars, chainVars, restVars>>

otherThanEnv == <<runVars, routerVars, chainVars, restVars>>
otherThanRun == <<envVars, routerVars, chainVars, restVars>>
otherThanRouter == <<envVars, runVars, chainVars, restVars>>
otherThanChain == <<envVars, runVars, routerVars, restVars>>
otherThanRest == <<runVars, routerVars, chainVars>>

\* ------------------------------------------------------------------ bounds
MaxComponents == 3
MaxResourceHandlers == 2
MaxArgs == 2
MaxRoutes == 3
MaxFilters == 3
MaxRequests == 2
MaxAccept == 2

\* ------------------------------------------------------------- utilities
Range(s) == {s[i] : i \in 1..Len(s)}

SeqsUpTo(S, n) == UNION {[1..k -> S] : k \in 0..n}

\* ============================================================================
\* ServerEnvironment
\* ============================================================================

\* The components of the example application, and one more.
Components == {"UserResource", "XMLProvider", "Other"}
ResourceHandlerIds == {"restHandler", "viewHandler"}

EnvInit ==
    /\ components = <<>>
    /\ resourceHandlers = <<>>
    /\ envStarted = FALSE
    /\ calls = <<>>

\* handle: every resource handler gets the component, last handler first.
RECURSIVE handleFrom(_, _, _)
handleFrom(component, hs, i) ==
    IF i < 1 THEN <<>>
    ELSE <<<<hs[i], component>>>> \o handleFrom(component, hs, i - 1)

\* First handler first.
handleForward(component, hs) == [i \in 1..Len(hs) |-> <<hs[i], component>>]

handle(component, hs) == handleFrom(component, hs, Len(hs))

\* onStarting: the loop over env.components.
RECURSIVE onStartingFrom(_, _, _)
onStartingFrom(cs, hs, k) ==
    IF k > Len(cs) THEN <<>>
    ELSE handle(cs[k], hs) \o onStartingFrom(cs, hs, k + 1)

onStartingCalls(cs, hs) == onStartingFrom(cs, hs, 1)

\* Register(component ...): appends the components in call order.
Register(cs) ==
    /\ Len(components) + Len(cs) <= MaxComponents
    /\ components' = components \o cs
    /\ UNCHANGED <<resourceHandlers, envStarted, calls>>
    /\ UNCHANGED otherThanEnv

\* AddResourceHandler(handler ...): appends the handlers in call order.
AddResourceHandler(hs) ==
    /\ Len(resourceHandlers) + Len(hs) <= MaxResourceHandlers
    /\ resourceHandlers' = resourceHandlers \o hs
    /\ UNCHANGED <<components, envStarted, calls>>
    /\ UNCHANGED otherThanEnv

\* onStarting: called once by the environment when the server is starting.
onStarting ==
    /\ ~envStarted
    /\ envStarted' = TRUE
    /\ calls' = calls \o onStartingCalls(components, resourceHandlers)
    /\ UNCHANGED <<components, resourceHandlers>>
    /\ UNCHANGED otherThanEnv

NextEnv ==
    \/ \E cs \in SeqsUpTo(Components, MaxArgs) \ {<<>>} : Register(cs)
    \/ \E hs \in SeqsUpTo(ResourceHandlerIds, MaxArgs) \ {<<>>} : AddResourceHandler(hs)
    \/ onStarting

\* ============================================================================
\* Router (the implementation behind core.Router / ServerHandler)
\* ============================================================================

\* A pattern is a sequence of segments; a path is a sequence of strings.
Lit(s) == [par |-> FALSE, name |-> s]
Par(s) == [par |-> TRUE, name |-> s]

NumParams(p) == Cardinality({i \in 1..Len(p) : p[i].par})

\* A literal segment must equal the request segment, a parameter segment
\* matches any (non-empty) segment.
SegMatches(seg, s) == seg.par \/ seg.name = s

Matches(p, path) ==
    /\ Len(p) = Len(path)
    /\ \A i \in 1..Len(p) : SegMatches(p[i], path[i])

\* Two distinct patterns of equal specificity that some path matches both.
Tie(p, q) ==
    /\ p # q
    /\ Len(p) = Len(q)
    /\ \A i \in 1..Len(p) : p[i].par \/ q[i].par \/ p[i].name = q[i].name
    /\ NumParams(p) = NumParams(q)

\* Handle(method, pattern, handler): fatal on a duplicate (method, pattern)
\* and on a tie; otherwise the route is added after the ones before it.
Handle(rs, method, pattern, handler) ==
    IF \/ \E i \in 1..Len(rs) :
            rs[i].method = method /\ rs[i].pattern = pattern
       \/ \E i \in 1..Len(rs) : Tie(rs[i].pattern, pattern)
    THEN [fatal |-> TRUE, routes |-> rs]
    ELSE [fatal |-> FALSE,
          routes |-> Append(rs, [method |-> method, pattern |-> pattern,
                                     handler |-> handler])]

\* The most specific pattern matching the path: the registered patterns are
\* walked in order and the one with the fewest parameter segments is kept
\* (0: none matches).
RECURSIVE BestPatternFirst(_, _, _, _)
BestPatternFirst(rs, path, i, best) ==
    IF i > Len(rs) THEN best
    ELSE IF Matches(rs[i].pattern, path) /\ best = 0
         THEN BestPatternFirst(rs, path, i + 1, i)
         ELSE BestPatternFirst(rs, path, i + 1, best)

RECURSIVE BestPattern(_, _, _, _)
BestPattern(rs, path, i, best) ==
    IF i > Len(rs) THEN best
    ELSE IF /\ Matches(rs[i].pattern, path)
            /\ (best = 0 \/ NumParams(rs[i].pattern) < NumParams(rs[best].pattern))
         THEN BestPattern(rs, path, i + 1, i)
         ELSE BestPattern(rs, path, i + 1, best)

\* The route of the pattern for the method (0: none).
RECURSIVE FindRoute(_, _, _, _)
FindRoute(rs, pattern, method, i) ==
    IF i > Len(rs) THEN 0
    ELSE IF rs[i].pattern = pattern /\ rs[i].method = method THEN i
         ELSE FindRoute(rs, pattern, method, i + 1)

\* The methods registered for the pattern, in registration order.
RECURSIVE MethodsOfAny(_, _, _)
MethodsOfAny(rs, pattern, i) ==
    IF i > Len(rs) THEN <<>>
    ELSE <<rs[i].method>> \o MethodsOfAny(rs, pattern, i + 1)

RECURSIVE MethodsOf(_, _, _)
MethodsOf(rs, pattern, i) ==
    IF i > Len(rs) THEN <<>>
    ELSE (IF rs[i].pattern = pattern THEN <<rs[i].method>> ELSE <<>>)
         \o MethodsOf(rs, pattern, i + 1)

\* The parameters a pattern captures from a path it matches.
PathParams(pattern, path) ==
    {<<pattern[i].name, path[i]>> : i \in {j \in 1..Len(pattern) : pattern[j].par}}

\* Match(method, path): the handler with its PathParams, "not found" (404)
\* or "method not allowed" (405, with the allowed methods). The exact method
\* is looked up first, then "*".
Match(rs, method, path) ==
    LET b == BestPattern(rs, path, 1, 0)
    IN IF b = 0
       THEN [status |-> 404, route |-> 0, params |-> {}, allow |-> <<>>]
       ELSE LET p == rs[b].pattern
                e == FindRoute(rs, p, method, 1)
                w == FindRoute(rs, p, "*", 1)
            IN IF e # 0
               THEN [status |-> 200, route |-> e, params |-> PathParams(p, path),
                     allow |-> <<>>]
               ELSE IF w # 0
               THEN [status |-> 200, route |-> w, params |-> PathParams(p, path),
                     allow |-> <<>>]
               ELSE [status |-> 405, route |-> 0, params |-> {},
                     allow |-> MethodsOf(rs, p, 1)]

\* The patterns, methods and request paths of the model.
UserResourcePath == <<Lit("user"), Par("name")>>
Patterns == {UserResourcePath,
             <<Lit("user"), Lit("admin")>>,
             <<Par("kind"), Lit("admin")>>,
             <<Par("kind"), Par("name")>>,
             <<Lit("user")>>}
Methods == {"GET", "POST", "*"}
RequestMethods == {"GET", "POST", "DELETE"}
Paths == {<<"user", "admin">>, <<"user", "alice">>, <<"item", "admin">>,
          <<"user">>, <<"item">>}

NoRequest == <<"none", <<>>>>
NoOutcome == [status |-> 0, route |-> 0, params |-> {}, allow |-> <<>>]

RouterInit ==
    /\ routes = <<>>
    /\ routerFatal = FALSE
    /\ serving = FALSE
    /\ lastReq = NoRequest
    /\ lastOutcome = NoOutcome

\* A registration, made before the server serves; a fatal one ends start-up.
RouterHandle(method, pattern) ==
    /\ ~serving
    /\ ~routerFatal
    /\ Len(routes) < MaxRoutes
    /\ LET r == Handle(routes, method, pattern, Len(routes) + 1)
       IN /\ routes' = r.routes
          /\ routerFatal' = r.fatal
    /\ UNCHANGED <<serving, lastReq, lastOutcome>>
    /\ UNCHANGED otherThanRouter

\* The server begins to serve: the route table is read-only from here on.
RouterServe ==
    /\ ~serving
    /\ ~routerFatal
    /\ serving' = TRUE
    /\ UNCHANGED <<routes, routerFatal, lastReq, lastOutcome>>
    /\ UNCHANGED otherThanRouter

\* A request is matched against the table.
Dispatch(method, path) ==
    /\ serving
    /\ lastReq' = <<method, path>>
    /\ lastOutcome' = Match(routes, method, path)
    /\ UNCHANGED <<routes, routerFatal, serving>>
    /\ UNCHANGED otherThanRouter

NextRouter ==
    \/ \E m \in Methods, p \in Patterns : RouterHandle(m, p)
    \/ RouterServe
    \/ \E m \in RequestMethods, path \in Paths : Dispatch(m, path)

\* ============================================================================
\* AdminEnvironment and ServerCommand.Run
\* ============================================================================

Nil == "nil"
Panic == "panic"
Err(step) == <<"error", step>>

pingHandler == [path |-> <<Lit("ping")>>, name |-> "Ping"]
runtimeHandler == [path |-> <<Lit("runtime")>>, name |-> "Runtime"]
healthCheckHandler == [path |-> <<Lit("healthcheck")>>, name |-> "Healthcheck"]
gcTask == "gc"

\* Handlers and tasks an application or a bundle may add.
ExtraHandlers == {[path |-> <<Lit("metrics")>>, name |-> "Metrics"],
                  [path |-> <<Lit("ping")>>, name |-> "Ping2"]}
ExtraTasks == {"log", "gc"}
MaxExtra == 2

\* NewAdminEnvironment: the default handlers and the default task.
NewAdminHandlers == <<pingHandler, runtimeHandler, healthCheckHandler>>
NewAdminTasks == <<gcTask>>

RunInit ==
    /\ pc = "EnvironmentCommand.Run"
    /\ trace = <<>>
    /\ runResult = "none"
    /\ stepErr = Nil
    /\ deferred = <<>>
    /\ handlers = <<>>
    /\ tasks = <<>>
    /\ adminRoutes = <<>>
    /\ adminFatal = FALSE

\* The Handle calls of start, in order: the index page, one "*" route per
\* handler, one POST /tasks/<name> route per task.
startRegistrationsNoHandlers(hs, ts) ==
    <<[method |-> "GET", pattern |-> <<>>, handler |-> <<"adminIndex", 0>>]>>
    \o [i \in 1..Len(ts) |->
          [method |-> "POST", pattern |-> <<Lit("tasks"), Lit(ts[i])>>,
           handler |-> <<"task", i>>]]

startRegistrations(hs, ts) ==
    <<[method |-> "GET", pattern |-> <<>>, handler |-> <<"adminIndex", 0>>]>>
    \o [i \in 1..Len(hs) |->
          [method |-> "*", pattern |-> hs[i].path, handler |-> <<"handler", i>>]]
    \o [i \in 1..Len(ts) |->
          [method |-> "POST", pattern |-> <<Lit("tasks"), Lit(ts[i])>>,
           handler |-> <<"task", i>>]]

\* The calls are made one after the other; a fatal Handle ends start.
RECURSIVE HandleAll(_, _, _)
HandleAll(rs, regs, i) ==
    IF i > Len(regs) THEN [fatal |-> FALSE, routes |-> rs]
    ELSE LET r == Handle(rs, regs[i].method, regs[i].pattern, regs[i].handler)
         IN IF r.fatal THEN r ELSE HandleAll(r.routes, regs, i + 1)

start(rs, hs, ts) == HandleAll(rs, startRegistrations(hs, ts), 1)

\* The life-cycle calls of Run, in the order of the code.
RunOrder == <<"EnvironmentCommand.Run", "ServerFactory.Build", "bootstrap.Run",
              "Application.Run", "Environment.SetStarting", "Server.Start",
              "Server.Stop">>

StepIndex(step) == CHOOSE i \in 1..Len(RunOrder) : RunOrder[i] = step

\* Where Run goes after a step: an error returns at once.
AfterStepNoReturn(step, err) ==
    IF (err # Nil /\ step # "bootstrap.Run") \/ step = "Server.Stop" THEN "returning"
    ELSE RunOrder[StepIndex(step) + 1]

AfterStep(step, err) ==
    IF err # Nil \/ step = "Server.Stop" THEN "returning"
    ELSE RunOrder[StepIndex(step) + 1]

\* The calls Run defers once a step has succeeded.
DeferredAfterBuild(step) ==
    IF step = "ServerFactory.Build" THEN <<"Environment.SetStopped">> ELSE <<>>

DeferredAfter(step) ==
    IF step = "EnvironmentCommand.Run" THEN <<"Environment.SetStopped">> ELSE <<>>

\* One step of Run: the call, the error check, the defer.
Step(step, err) ==
    /\ pc = step
    /\ trace' = Append(trace, [call |-> step, err |-> err])
    /\ stepErr' = err
    /\ pc' = AfterStep(step, err)
    /\ deferred' = IF err = Nil THEN deferred \o DeferredAfter(step) ELSE deferred
    /\ runResult' = runResult

\* command.EnvironmentCommand.Run(bootstrap): creates the environment.
EnvironmentCommandRun(err) ==
    /\ Step("EnvironmentCommand.Run", err)
    /\ handlers' = IF err = Nil THEN NewAdminHandlers ELSE handlers
    /\ tasks' = IF err = Nil THEN NewAdminTasks ELSE tasks
    /\ UNCHANGED <<adminRoutes, adminFatal>>
    /\ UNCHANGED otherThanRun

\* ServerFactory().Build(command.Environment)
ServerFactoryBuild(err) ==
    /\ Step("ServerFactory.Build", err)
    /\ UNCHANGED <<handlers, tasks, adminRoutes, adminFatal>>
    /\ UNCHANGED otherThanRun

\* bootstrap.Run: runs the bundles.
BootstrapRun(err) ==
    /\ Step("bootstrap.Run", err)
    /\ UNCHANGED <<handlers, tasks, adminRoutes, adminFatal>>
    /\ UNCHANGED otherThanRun

\* bootstrap.Application.Run
ApplicationRun(err) ==
    /\ Step("Application.Run", err)
    /\ UNCHANGED <<handlers, tasks, adminRoutes, adminFatal>>
    /\ UNCHANGED otherThanRun

\* AddHandler / AddTask, called by a bundle or by the application.
AddHandler(h) ==
    /\ pc \in {"bootstrap.Run", "Application.Run"}
    /\ Len(handlers) + Len(tasks) < Len(NewAdminHandlers) + Len(NewAdminTasks) + MaxExtra
    /\ handlers' = Append(handlers, h)
    /\ UNCHANGED <<pc, trace, runResult, stepErr, deferred, tasks, adminRoutes, adminFatal>>
    /\ UNCHANGED otherThanRun

AddTask(t) ==
    /\ pc \in {"bootstrap.Run", "Application.Run"}
    /\ Len(handlers) + Len(tasks) < Len(NewAdminHandlers) + Len(NewAdminTasks) + MaxExtra
    /\ tasks' = Append(tasks, t)
    /\ UNCHANGED <<pc, trace, runResult, stepErr, deferred, handlers, adminRoutes, adminFatal>>
    /\ UNCHANGED otherThanRun

\* Environment.SetStarting: the admin environment registers its routes; a
\* fatal Handle panics out of Run.
SetStarting ==
    LET r == start(adminRoutes, handlers, tasks)
    IN /\ Step("Environment.SetStarting", IF r.fatal THEN Panic ELSE Nil)
       /\ adminRoutes' = r.routes
       /\ adminFatal' = r.fatal
       /\ UNCHANGED <<handlers, tasks>>
       /\ UNCHANGED otherThanRun

\* Server.Start: blocks while the server serves.
ServerStart(err) ==
    /\ Step("Server.Start", err)
    /\ UNCHANGED <<handlers, tasks, adminRoutes, adminFatal>>
    /\ UNCHANGED otherThanRun

\* Server.Stop: its result is not looked at.
ServerStop ==
    /\ Step("Server.Stop", Nil)
    /\ UNCHANGED <<handlers, tasks, adminRoutes, adminFatal>>
    /\ UNCHANGED otherThanRun

\* Run leaves: the deferred calls run, innermost first, then the caller gets
\* the error of the failing step, nil, or the panic.
RECURSIVE RunDeferredCalls(_, _)
RunDeferredCalls(ds, i) ==
    IF i < 1 THEN <<>>
    ELSE <<[call |-> ds[i], err |-> Nil]>> \o RunDeferredCalls(ds, i - 1)

Return ==
    /\ pc = "returning"
    /\ trace' = trace \o RunDeferredCalls(deferred, Len(deferred))
    /\ deferred' = <<>>
    /\ runResult' = stepErr
    /\ pc' = "returned"
    /\ UNCHANGED <<stepErr, handlers, tasks, adminRoutes, adminFatal>>
    /\ UNCHANGED otherThanRun

NextRun ==
    \/ \E err \in {Nil, Err("EnvironmentCommand.Run")} : EnvironmentCommandRun(err)
    \/ \E err \in {Nil, Err("ServerFactory.Build")} : ServerFactoryBuild(err)
    \/ \E err \in {Nil, Err("bootstrap.Run")} : BootstrapRun(err)
    \/ \E err \in {Nil, Err("Application.Run")} : ApplicationRun(err)
    \/ \E h \in ExtraHandlers : AddHandler(h)
    \/ \E t \in ExtraTasks : AddTask(t)
    \/ SetStarting
    \/ \E err \in {Nil, Err("Server.Start")} : ServerStart(err)
    \/ ServerStop
    \/ Return

\* ============================================================================
\* filter.Chain and recovery.Filter
\* ============================================================================

\* A response: status 0 until the header is written; the body as the
\* sequence of the words and line ends written.
NewRecorder == [status |-> 0, body |-> <<>>]

\* w.Write: the first write sends the header with status 200.
Write(w, text) ==
    [status |-> IF w.status = 0 THEN 200 ELSE w.status,
     body |-> w.body \o text]

WriteHeader(w, code) ==
    [w EXCEPT !.status = IF w.status = 0 THEN code ELSE w.status]

HeaderSent(w) == w.status # 0

StatusInternalServerError == 500
StatusText500 == "Internal Server Error"

Whitespace == {"\n", " "}

\* strings.TrimSpace on a body: leading and trailing white space removed.
RECURSIVE TrimLeft(_)
TrimLeft(b) ==
    IF b # <<>> /\ Head(b) \in Whitespace THEN TrimLeft(Tail(b)) ELSE b

RECURSIVE TrimRight(_)
TrimRight(b) ==
    IF b # <<>> /\ b[Len(b)] \in Whitespace
    THEN TrimRight(SubSeq(b, 1, Len(b) - 1)) ELSE b

TrimSpace(b) == TrimRight(TrimLeft(b))

NilRequest == "nil"
Requests == {NilRequest, "GET"}

\* The filters: the recovery filter, one that passes the request on, one
\* that answers itself; Last(h) makes the terminal filter of a handler.
RecoveryFilter == [kind |-> "recovery", h |-> "-"]
PassFilter == [kind |-> "pass", h |-> "-"]
StopFilter == [kind |-> "stop", h |-> "-"]
Last(h) == [kind |-> "last", h |-> h]
Filters == {RecoveryFilter, PassFilter, StopFilter}

\* The terminal handlers: the two of the recovery test, one that answers,
\* one that panics with another value, one that panics after it has written.
Handlers == {"TestPanicHandler", "TestNilPointer", "Hello", "PanicBoom",
             "WriteThenPanic"}

\* What a handler does to the response, and the panic it raises ("none":
\* it returns).
RunHandler(h, w, r) ==
    CASE h = "TestPanicHandler" -> [resp |-> w, panic |-> "panic"]
      [] h = "TestNilPointer" ->
            IF r = NilRequest
            THEN [resp |-> w, panic |-> "runtime error: nil pointer dereference"]
            ELSE [resp |-> Write(w, <<r>>), panic |-> "none"]
      [] h = "Hello" -> [resp |-> Write(w, <<"hello", "\n">>), panic |-> "none"]
      [] h = "PanicBoom" -> [resp |-> w, panic |-> "boom"]
      [] h = "WriteThenPanic" -> [resp |-> Write(w, <<"partial">>), panic |-> "late"]

\* The chain the recovery test builds: chain.Add(f, filter.Last(h)).
testFilterChainNoRecovery(h) == <<Last(h)>>

testFilterChain(h) == <<RecoveryFilter, Last(h)>>

\* What the recovery filter makes of the response when it has caught a
\* panic: status 500 and the fixed text, unless the header is already sent.
Recovered(w) ==
    IF HeaderSent(w) THEN w
    ELSE Write(WriteHeader(w, StatusInternalServerError), <<StatusText500, "\n">>)

\* The filter the continuation given to filter i starts with.
NextFilterSkips(i) == i + 2

NextFilter(i) == i + 1

\* The innermost recovery filter the request has passed (0: none).
RECURSIVE InnermostRecovery(_, _)
InnermostRecovery(c, i) ==
    IF i < 1 THEN 0
    ELSE IF c[i].kind = "recovery" THEN i ELSE InnermostRecovery(c, i - 1)

ChainInit ==
    /\ chain = <<>>
    /\ cpc = "build"
    /\ cIdx = 0
    /\ request = NilRequest
    /\ resp = NewRecorder
    /\ invoked = <<>>
    /\ failure = "none"
    /\ respAtFailure = NewRecorder
    /\ cReturn = "none"
    /\ logged = 0
    /\ served = 0

\* Add(filters...): the filters are appended in call order.
ChainAdd(f) ==
    /\ cpc = "build"
    /\ Len(chain) < MaxFilters
    /\ chain' = Append(chain, f)
    /\ UNCHANGED <<cpc, cIdx, request, resp, invoked, failure, respAtFailure,
                   cReturn, logged, served>>
    /\ UNCHANGED otherThanChain

\* Add(..., Last(h)): the terminal handler ends the chain, which is fixed
\* from then on.
ChainAddLast(h) ==
    /\ cpc = "build"
    /\ chain' = Append(chain, Last(h))
    /\ cpc' = "idle"
    /\ UNCHANGED <<cIdx, request, resp, invoked, failure, respAtFailure,
                   cReturn, logged, served>>
    /\ UNCHANGED otherThanChain

\* ServeHTTP(w, r) is called with a fresh response.
ServeHTTP(r) ==
    /\ cpc \in {"idle", "done"}
    /\ served < MaxRequests
    /\ served' = served + 1
    /\ request' = r
    /\ resp' = NewRecorder
    /\ invoked' = <<>>
    /\ failure' = "none"
    /\ respAtFailure' = NewRecorder
    /\ cReturn' = "none"
    /\ cIdx' = 1
    /\ cpc' = "run"
    /\ UNCHANGED <<chain, logged>>
    /\ UNCHANGED otherThanChain

\* The filter the request has reached is invoked: it passes the request on,
\* answers itself without calling next, or (the terminal one) runs the handler.
InvokeFilter ==
    /\ cpc = "run"
    /\ cIdx <= Len(chain)
    /\ LET f == chain[cIdx]
       IN /\ invoked' = Append(invoked, cIdx)
          /\ CASE f.kind \in {"recovery", "pass"} ->
                    \* next is called; with no filter left it returns at once
                    /\ cIdx' = NextFilter(cIdx)
                    /\ cpc' = IF NextFilter(cIdx) > Len(chain) THEN "done" ELSE cpc
                    /\ cReturn' =
                          IF NextFilter(cIdx) > Len(chain) THEN "normal" ELSE cReturn
                    /\ UNCHANGED <<resp, failure, respAtFailure>>
               [] f.kind = "stop" ->
                    /\ cpc' = "done"
                    /\ cReturn' = "normal"
                    /\ UNCHANGED <<cIdx, resp, failure, respAtFailure>>
               [] f.kind = "last" ->
                    LET out == RunHandler(f.h, resp, request)
                    IN /\ resp' = out.resp
                       /\ failure' = out.panic
                       /\ respAtFailure' =
                             IF out.panic = "none" THEN respAtFailure ELSE out.resp
                       /\ cpc' = IF out.panic = "none" THEN "done" ELSE "panicking"
                       /\ cReturn' = IF out.panic = "none" THEN "normal" ELSE cReturn
                       /\ UNCHANGED cIdx
    /\ UNCHANGED <<chain, request, logged, served>>
    /\ UNCHANGED otherThanChain

\* The panic unwinds to the innermost recovery filter, which writes the
\* error response, logs the failure and returns.
Recover ==
    /\ cpc = "panicking"
    /\ InnermostRecovery(chain, cIdx - 1) # 0
    /\ resp' = Recovered(resp)
    /\ logged' = logged + 1
    /\ cpc' = "done"
    /\ cReturn' = "normal"
    /\ UNCHANGED <<chain, cIdx, request, invoked, failure, respAtFailure, served>>
    /\ UNCHANGED otherThanChain

\* No recovery filter on the way: the panic leaves ServeHTTP.
Propagate ==
    /\ cpc = "panicking"
    /\ InnermostRecovery(chain, cIdx - 1) = 0
    /\ cpc' = "done"
    /\ cReturn' = "panic"
    /\ UNCHANGED <<chain, cIdx, request, resp, invoked, failure, respAtFailure,
                   logged, served>>
    /\ UNCHANGED otherThanChain

NextChain ==
    \/ \E f \in Filters : ChainAdd(f)
    \/ \E h \in Handlers : ChainAddLast(h)
    \/ \E r \in Requests : ServeHTTP(r)
    \/ InvokeFilter
    \/ Recover
    \/ Propagate

\* ============================================================================
\* rest.Application, content negotiation and the resource adapter
\* ============================================================================

JSONProvider == [name |-> "JSON", produces |-> <<"application/json">>,
                 consumes |-> <<"application/json">>]
XMLProvider == [name |-> "XML", produces |-> <<"application/xml">>,
                consumes |-> <<"application/xml">>]

\* restHandler.providers as Application.Run sets it.
RestProvidersXMLFirst == <<XMLProvider, JSONProvider>>

RestProviders == <<JSONProvider, XMLProvider>>

MediaTypes == {"application/json", "application/xml", "application/pdf"}
AnyType == "*/*"

\* The weights of the model, in tenths: q=1.0 (also the absent weight), q=0.5.
Weights == {10, 5}

\* An Accept header: its media ranges in the order written (none: absent).
MediaRanges == [type : MediaTypes \cup {AnyType}, q : Weights]
AcceptHeaders == SeqsUpTo(MediaRanges, MaxAccept)

RangeMatches(range, type) == range = AnyType \/ range = type

\* The first provider, in registration order, that produces a type the
\* range accepts (0: none).
RECURSIVE FirstProducer(_, _, _)
FirstProducer(ps, range, i) ==
    IF i > Len(ps) THEN 0
    ELSE IF \E k \in 1..Len(ps[i].produces) : RangeMatches(range, ps[i].produces[k])
         THEN i
         ELSE FirstProducer(ps, range, i + 1)

\* Range a is preferred to range b: the higher weight wins, and at equal
\* weight a named type is more certain than "*/*".
Preferred(a, b) ==
    \/ a.q > b.q
    \/ a.q = b.q /\ a.type # AnyType /\ b.type = AnyType

\* The first range of the header no other range is preferred to.
BestRange(accept) ==
    CHOOSE k \in 1..Len(accept) :
        /\ \A j \in 1..Len(accept) : ~Preferred(accept[j], accept[k])
        /\ \A j \in 1..(k - 1) : Preferred(accept[k], accept[j])

Without(seq, k) == SubSeq(seq, 1, k - 1) \o SubSeq(seq, k + 1, Len(seq))

\* SelectWriter(acceptHeader): with no header the first registered provider;
\* otherwise the ranges are tried in preference order (0: no acceptable type).
RECURSIVE SelectByPreference(_, _)
SelectByPreference(ps, accept) ==
    IF accept = <<>> THEN 0
    ELSE LET k == BestRange(accept)
             i == FirstProducer(ps, accept[k].type, 1)
         IN IF i # 0 THEN i ELSE SelectByPreference(ps, Without(accept, k))

SelectWriter(ps, accept) ==
    IF accept = <<>> THEN (IF ps = <<>> THEN 0 ELSE 1)
    ELSE SelectByPreference(ps, accept)

\* SelectReader(contentTypeHeader): the first provider that consumes the
\* declared type (0: none).
RECURSIVE SelectReader(_, _, _)
SelectReader(ps, ctype, i) ==
    IF i > Len(ps) THEN 0
    ELSE IF \E k \in 1..Len(ps[i].consumes) : ps[i].consumes[k] = ctype THEN i
         ELSE SelectReader(ps, ctype, i + 1)

\* Encode: the value in the provider's format. Decode: fails on a body that
\* is malformed or of another format.
Encode(provider, value) ==
    [format |-> provider.name, wellFormed |-> TRUE, value |-> value]

DecodeFails(provider, body) == body.format # provider.name \/ ~body.wellFormed

\* The values a verb method returns or a body holds.
NoValue == [type |-> "nil", Name |-> ""]
User(name) == [type |-> "User", Name |-> name]
Deleted(name) == [type |-> "string", Name |-> name]

NoBody == [format |-> "", wellFormed |-> TRUE, value |-> NoValue]
Bodies == {[format |-> f, wellFormed |-> w, value |-> User("bob")] :
              f \in {"JSON", "XML"}, w \in BOOLEAN}

NoError == [kind |-> "nil", status |-> 0]
DecodeError == [kind |-> "decode", status |-> 400]
UnsupportedMediaType == [kind |-> "negotiation", status |-> 415]
StatusNotAcceptable == 406
StatusOK == 200

\* rest.RequestBodyFromContext(c, v): the reader is negotiated on the
\* request's content type and the body is decoded into v.
RequestBodyFromContext(ps, req) ==
    LET i == SelectReader(ps, req.ctype, 1)
    IN IF i = 0 THEN [err |-> UnsupportedMediaType, value |-> NoValue]
       ELSE IF DecodeFails(ps[i], req.body) THEN [err |-> DecodeError, value |-> NoValue]
       ELSE [err |-> NoError, value |-> req.body.value]

\* UserResource.GET and UserResource.DELETE.
GET(req) == [value |-> User(req.name), err |-> NoError]
DELETE(req) == [value |-> Deleted(req.name), err |-> NoError]

\* UserResource.POST after RequestBodyFromContext has returned.
POSTIgnoresError(decoded) == [value |-> decoded.value, err |-> NoError]

POST(decoded) ==
    IF decoded.err # NoError THEN [value |-> NoValue, err |-> decoded.err]
    ELSE [value |-> decoded.value, err |-> NoError]

\* The requests of the model: only a POST carries a content type and a body.
RestRequests ==
    {[verb |-> v, accept |-> a, ctype |-> "", body |-> NoBody, name |-> "alice"] :
        v \in {"GET", "DELETE"}, a \in AcceptHeaders}
    \cup
    {[verb |-> "POST", accept |-> a, ctype |-> c, body |-> b, name |-> "alice"] :
        a \in {<<>>, <<[type |-> "application/xml", q |-> 10]>>,
               <<[type |-> "application/pdf", q |-> 10]>>},
        c \in MediaTypes, b \in Bodies}

NoRestRequest == [verb |-> "", accept |-> <<>>, ctype |-> "", body |-> NoBody, name |-> ""]
NoResult == [value |-> NoValue, err |-> NoError]
Event(ev, verb, status) == [ev |-> ev, verb |-> verb, status |-> status]
NoResponse == [status |-> 0, contentType |-> "", body |-> <<>>]

RestInit ==
    /\ providers = <<>>
    /\ rpc = "init"
    /\ rReq = NoRestRequest
    /\ rLog = <<>>
    /\ rDecodeErr = NoResult
    /\ rResult = NoResult
    /\ rSelected = 0
    /\ rResp = NoResponse

\* rest.Application.Run: after the embedded application has run, the REST
\* resource handler is created with its providers and added to the server
\* environment.
RestApplicationRun(err) ==
    /\ rpc = "init"
    /\ IF err # Nil
       THEN /\ rpc' = "failed"
            /\ UNCHANGED <<providers, resourceHandlers>>
       ELSE /\ rpc' = "idle"
            /\ providers' = RestProviders
            /\ resourceHandlers' = resourceHandlers \o <<"restHandler">>
    /\ UNCHANGED <<rReq, rLog, rDecodeErr, rResult, rSelected, rResp>>
    /\ UNCHANGED <<components, envStarted, calls>>
    /\ UNCHANGED otherThanRest

\* A request reaches the adapter, which puts the path parameters in the
\* context and invokes the bound verb method.
ServeResource(req) ==
    /\ rpc = "idle"
    /\ rReq' = req
    /\ rLog' = <<Event("invoke", req.verb, 0)>>
    /\ rDecodeErr' = NoResult
    /\ rResult' = NoResult
    /\ rSelected' = 0
    /\ rResp' = NoResponse
    /\ rpc' = "inMethod"
    /\ UNCHANGED providers
    /\ UNCHANGED envVars
    /\ UNCHANGED otherThanRest

\* Inside UserResource.POST: the body is read from the context.
ReadRequestBody ==
    /\ rpc = "inMethod"
    /\ rReq.verb = "POST"
    /\ rDecodeErr' = RequestBodyFromContext(providers, rReq)
    /\ rLog' = Append(rLog, Event("decode", rReq.verb, rDecodeErr'.err.status))
    /\ rpc' = "afterDecode"
    /\ UNCHANGED <<providers, rReq, rResult, rSelected, rResp>>
    /\ UNCHANGED envVars
    /\ UNCHANGED otherThanRest

\* The verb method returns its result and error.
MethodReturn ==
    /\ \/ rpc = "inMethod" /\ rReq.verb # "POST"
       \/ rpc = "afterDecode"
    /\ rResult' = CASE rReq.verb = "GET" -> GET(rReq)
                    [] rReq.verb = "DELETE" -> DELETE(rReq)
                    [] rReq.verb = "POST" -> POST(rDecodeErr)
    /\ rLog' = Append(rLog, Event("return", rReq.verb, rResult'.err.status))
    /\ rpc' = "returned"
    /\ UNCHANGED <<providers, rReq, rDecodeErr, rSelected, rResp>>
    /\ UNCHANGED envVars
    /\ UNCHANGED otherThanRest

\* The adapter writes the response: the error's response without encoding
\* anything, or the result encoded by the provider negotiated on the Accept
\* header, or 406 with no body when there is no acceptable type.
WriteResponse ==
    /\ rpc = "returned"
    /\ LET w == SelectWriter(providers, rReq.accept)
       IN IF rResult.err # NoError
          THEN /\ rSelected' = 0
               /\ rResp' = [status |-> rResult.err.status, contentType |-> "",
                            body |-> <<>>]
          ELSE IF w = 0
          THEN /\ rSelected' = 0
               /\ rResp' = [status |-> StatusNotAcceptable, contentType |-> "",
                            body |-> <<>>]
          ELSE /\ rSelected' = w
               /\ rResp' = [status |-> StatusOK,
                            contentType |-> providers[w].produces[1],
                            body |-> <<Encode(providers[w], rResult.value)>>]
    /\ rLog' = Append(rLog, Event("respond", rReq.verb, rResp'.status))
    /\ rpc' = "idle"
    /\ UNCHANGED <<providers, rReq, rDecodeErr, rResult>>
    /\ UNCHANGED envVars
    /\ UNCHANGED otherThanRest

NextRest ==
    \/ \E err \in {Nil, Err("Application.Run")} : RestApplicationRun(err)
    \/ \E req \in RestRequests : ServeResource(req)
    \/ ReadRequestBody
    \/ MethodReturn
    \/ WriteResponse

Init == EnvInit /\ RunInit /\ RouterInit /\ ChainInit /\ RestInit

SpecEnv == Init /\ [][NextEnv]_vars
SpecRun == Init /\ [][NextRun]_vars
SpecRouter == Init /\ [][NextRouter]_vars
SpecChain == Init /\ [][NextChain]_vars
SpecRest == Init /\ [][NextRest]_vars

\* ============================================================================
\* Claims about ServerCommand.Run and the admin start-up
\* ============================================================================

Called(call) == \E i \in 1..Len(trace) : trace[i].call = call

\* The life-cycle calls without the deferred one.
MainCalls == SelectSeq(trace, LAMBDA e : e.call # "Environment.SetStopped")

SetStoppedCount ==
    Cardinality({i \in 1..Len(trace) : trace[i].call = "Environment.SetStopped"})

DuplicatePath(hs) ==
    \E i, j \in 1..Len(hs) : i < j /\ hs[i].path = hs[j].path

DuplicateName(ts) ==
    \E i, j \in 1..Len(ts) : i < j /\ ts[i] = ts[j]

\* C7: a (method, pattern) pair is never bound twice and a binding is never
\* replaced: the admin route table holds each pair once, bound to the first
\* handler or task registered for it; once Handle has failed the server is
\* never started; and when SetStarting runs with two admin handlers of the
\* same Path() or two tasks of the same Name(), start-up is aborted by the
\* panic, Server.Start is never called and Run gives no ordinary result.
C7_DuplicateRouteFatal ==
    /\ \A i, j \in 1..Len(adminRoutes) :
          (/\ adminRoutes[i].method = adminRoutes[j].method
           /\ adminRoutes[i].pattern = adminRoutes[j].pattern) => i = j
    /\ \A i \in 1..Len(adminRoutes) :
          LET r == adminRoutes[i]
          IN /\ r.handler[1] = "handler" =>
                  /\ handlers[r.handler[2]].path = r.pattern
                  /\ \A j \in 1..(r.handler[2] - 1) : handlers[j].path # r.pattern
             /\ r.handler[1] = "task" =>
                  /\ r.pattern = <<Lit("tasks"), Lit(tasks[r.handler[2]])>>
                  /\ \A j \in 1..(r.handler[2] - 1) : tasks[j] # tasks[r.handler[2]]
    /\ adminFatal => ~Called("Server.Start")
    /\ (Called("Environment.SetStarting")
          /\ (DuplicatePath(handlers) \/ DuplicateName(tasks)))
       => /\ adminFatal
          /\ ~Called("Server.Start")
          /\ pc \in {"returning", "returned"}
          /\ runResult \in {"none", Panic}
    /\ (Called("Environment.SetStarting")
          /\ ~DuplicatePath(handlers) /\ ~DuplicateName(tasks))
       => /\ ~adminFatal
          /\ Len(adminRoutes) = 1 + Len(handlers) + Len(tasks)

C7_Witness ==
    /\ pc = "returned"
    /\ adminFatal
    /\ runResult = Panic
    /\ DuplicateName(tasks)
    /\ ~DuplicatePath(handlers)
    /\ Len(adminRoutes) = 1 + Len(handlers) + 1

\* C8: the calls of Run occur in the fixed order of RunOrder, each only after
\* all the earlier ones; only the last call made may have failed (so
\* Server.Start follows only error-free steps and Server.Stop only an
\* error-free Server.Start); Run returns the error of the failing step, and
\* returns nil only after all seven calls.
C8_RunOrder ==
    LET m == MainCalls
    IN /\ Len(m) <= Len(RunOrder)
       /\ \A i \in 1..Len(m) : m[i].call = RunOrder[i]
       /\ \A i \in 1..(Len(m) - 1) : m[i].err = Nil
       /\ pc # "returned" => runResult = "none"
       /\ pc = "returned" =>
            /\ Len(m) >= 1
            /\ runResult = m[Len(m)].err
            /\ runResult = Nil => Len(m) = Len(RunOrder)

C8_Witness ==
    /\ pc = "returned"
    /\ runResult = Err("Application.Run")
    /\ Len(MainCalls) = 4
    /\ ~Called("Server.Start")

\* C9: when environment creation succeeded, Environment.SetStopped has been
\* called exactly once when Run has returned, as the last call of Run, on
\* every path (success, error at any later step, panic of SetStarting); it
\* is not called before Run leaves.
C9_SetStoppedOnce ==
    /\ (pc = "returned" /\ trace[1].err = Nil) =>
          /\ SetStoppedCount = 1
          /\ trace[Len(trace)].call = "Environment.SetStopped"
    /\ pc # "returned" => SetStoppedCount = 0

C9_Witness ==
    /\ pc = "returned"
    /\ runResult = Err("ServerFactory.Build")
    /\ ~Called("Environment.SetStarting")
    /\ SetStoppedCount = 1
    /\ trace[Len(trace)].call = "Environment.SetStopped"

\* ============================================================================
\* Claims about ServerEnvironment
\* ============================================================================

\* Component by component in registration order, and for each component the
\* handlers from the last added to the first.
ExpectedCalls(cs, hs) ==
    [k \in 1..(Len(cs) * Len(hs)) |->
        <<hs[Len(hs) - ((k - 1) % Len(hs))], cs[((k - 1) \div Len(hs)) + 1]>>]

\* C10: onStarting passes every registered component to every added resource
\* handler once per registration, components in registration order and, per
\* component, handlers in reverse order of addition; what is registered or
\* added after onStarting is not processed.
C10_OnStartingHandlesAll ==
    [][/\ (~envStarted /\ envStarted') =>
             calls' = ExpectedCalls(components, resourceHandlers)
       /\ envStarted => calls' = calls]_vars

C10_Witness ==
    /\ envStarted
    /\ Len(resourceHandlers) = 2
    /\ resourceHandlers[1] # resourceHandlers[2]
    /\ Len(components) = 3
    /\ Len(calls) = 4
    /\ calls[1] = <<resourceHandlers[2], components[1]>>
    /\ calls[4] = <<resourceHandlers[1], components[2]>>

\* ============================================================================
\* Claims about the router
\* ============================================================================

Dispatched == lastReq # NoRequest

PatternsMatching(path) ==
    {routes[i].pattern : i \in {j \in 1..Len(routes) : Matches(routes[j].pattern, path)}}

\* The matching patterns no other matching pattern beats.
MostSpecific(path) ==
    {p \in PatternsMatching(path) :
        \A q \in PatternsMatching(path) : NumParams(p) <= NumParams(q)}

RegisteredMethods(p) ==
    {routes[i].method : i \in {j \in 1..Len(routes) : routes[j].pattern = p}}

Registered(method, pattern) ==
    \E i \in 1..Len(routes) : routes[i].method = method /\ routes[i].pattern = pattern

C4_MethodNotAllowed ==
    Dispatched =>
      LET method == lastReq[1]
          path == lastReq[2]
      IN /\ lastOutcome.status \in {200, 404, 405}
         /\ (lastOutcome.status = 404) <=> (PatternsMatching(path) = {})
         /\ (lastOutcome.status = 405) <=>
               \E p \in MostSpecific(path) :
                  ~Registered(method, p) /\ ~Registered("*", p)
         /\ lastOutcome.status = 405 =>
               /\ lastOutcome.route = 0
               /\ \A p \in MostSpecific(path) :
                     /\ Range(lastOutcome.allow) = RegisteredMethods(p)
                     /\ Len(lastOutcome.allow) = Cardinality(RegisteredMethods(p))
               /\ method \notin Range(lastOutcome.allow)
         /\ lastOutcome.status # 405 => lastOutcome.allow = <<>>
         /\ (lastOutcome.status = 200) <=> (lastOutcome.route # 0)

C4_Witness ==
    /\ Len(routes) = 3
    /\ lastReq = <<"DELETE", <<"user", "alice">>>>
    /\ lastOutcome.status = 405
    /\ Range(lastOutcome.allow) = {"GET", "POST"}
    /\ Cardinality(PatternsMatching(<<"user", "alice">>)) = 2

\* ============================================================================
\* Claims about the filter chain and the recovery filter
\* ============================================================================

Failed == failure # "none"

BuiltByTestFilter == \E h \in Handlers : chain = testFilterChain(h)

\* C1 as stated: whatever the failure of the terminal handler, ServeHTTP
\* returns normally with status 500 and the fixed text as body.
C1_AnyFailureGives500 ==
    (cpc = "done" /\ BuiltByTestFilter /\ Failed) =>
        /\ cReturn = "normal"
        /\ resp.status = StatusInternalServerError
        /\ TrimSpace(resp.body) = <<StatusText500>>

\* C1, amended: for a chain built as Add(recoveryFilter, Last(h)), a failure
\* of h never leaves ServeHTTP and is logged once; when h had written nothing
\* before it failed, the status is 500 and the body is the fixed status
\* text, whatever the panic value; when h had already sent the header, the
\* response stays as h left it.
C1_RecoveryFilter ==
    /\ (cpc = "done" /\ BuiltByTestFilter) => cReturn = "normal"
    /\ (cpc = "done" /\ BuiltByTestFilter /\ Failed) =>
          /\ ~HeaderSent(respAtFailure) =>
                /\ resp.status = StatusInternalServerError
                /\ TrimSpace(resp.body) = <<StatusText500>>
          /\ HeaderSent(respAtFailure) => resp = respAtFailure
    /\ BuiltByTestFilter => logged <= served
    /\ (BuiltByTestFilter /\ cpc = "done" /\ served = 1) =>
          logged = (IF Failed THEN 1 ELSE 0)

C1_Witness ==
    /\ cpc = "done"
    /\ chain = testFilterChain("TestNilPointer")
    /\ request = NilRequest
    /\ failure = "runtime error: nil pointer dereference"
    /\ cReturn = "normal"
    /\ resp.status = 500
    /\ served = 2
    /\ logged = 2

\* C2: the filters are invoked in the order they were added, each at most
\* once per request; a filter is invoked only if the one before it called
\* next; when ServeHTTP is over, the terminal handler has been invoked (once)
\* if and only if no filter before it omitted the call to next.
C2_ChainOrder ==
    /\ Len(invoked) <= Len(chain)
    /\ \A i \in 1..Len(invoked) : invoked[i] = i
    /\ \A i \in 2..Len(invoked) : chain[i - 1].kind # "stop"
    /\ cpc = "done" =>
          /\ Len(invoked) >= 1
          /\ (\A i \in 1..(Len(chain) - 1) : chain[i].kind # "stop")
                <=> invoked[Len(invoked)] = Len(chain)
          /\ (\E i \in 1..(Len(chain) - 1) : chain[i].kind = "stop")
                => /\ chain[Len(invoked)].kind = "stop"
                   /\ \A i \in 1..(Len(invoked) - 1) : chain[i].kind # "stop"
                   /\ resp = NewRecorder

C2_Witness ==
    /\ cpc = "done"
    /\ Len(chain) = 4
    /\ chain[2].kind = "pass"
    /\ chain[3].kind = "stop"
    /\ invoked = <<1, 2, 3>>
    /\ served = 2

\* ============================================================================
\* Claims about content negotiation and the resource adapter
\* ============================================================================

Responded == rpc = "idle" /\ rReq # NoRestRequest

Only(type) == Len(rReq.accept) = 1 /\ rReq.accept[1].type = type

\* Some provider produces a type the range accepts.
Producible(range) ==
    \E i \in 1..Len(providers) : \E k \in 1..Len(providers[i].produces) :
        RangeMatches(range.type, providers[i].produces[k])

\* C5: with the providers as rest.Application.Run installs them (JSON, then
\* XML), the writer negotiated for a result is the XML provider for
\* Accept: application/xml and the JSON provider for Accept: */* and for no
\* Accept header; for Accept: application/pdf alone negotiation fails with
\* 406 and an empty body. In general the writer is the first provider for
\* the most preferred range some provider can serve, and 406 is given
\* exactly when no range can be served.
C5_Negotiation ==
    /\ rpc \notin {"init", "failed"} => providers = <<JSONProvider, XMLProvider>>
    /\ (Responded /\ rResult.err = NoError) =>
          /\ Only("application/xml") =>
                /\ rSelected # 0
                /\ providers[rSelected] = XMLProvider
                /\ rResp.status = StatusOK
                /\ rResp.contentType = "application/xml"
          /\ (Only(AnyType) \/ rReq.accept = <<>>) =>
                /\ rSelected = 1
                /\ providers[rSelected] = JSONProvider
                /\ rResp.status = StatusOK
                /\ rResp.contentType = "application/json"
          /\ Only("application/pdf") =>
                /\ rSelected = 0
                /\ rResp.status = StatusNotAcceptable
                /\ rResp.body = <<>>
          /\ (rResp.status = StatusNotAcceptable) <=>
                (rReq.accept # <<>> /\
                 \A k \in 1..Len(rReq.accept) : ~Producible(rReq.accept[k]))
          /\ rResp.status = StatusNotAcceptable => (rSelected = 0 /\ rResp.body = <<>>)
          /\ (rSelected # 0 /\ rReq.accept # <<>>) =>
                \E k \in 1..Len(rReq.accept) :
                   /\ rSelected = FirstProducer(providers, rReq.accept[k].type, 1)
                   /\ \A j \in 1..Len(rReq.accept) :
                         Preferred(rReq.accept[j], rReq.accept[k])
                            => ~Producible(rReq.accept[j])
          /\ rSelected # 0 =>
                rResp.body = <<Encode(providers[rSelected], rResult.value)>>

C5_Witness ==
    /\ Responded
    /\ rReq.verb = "GET"
    /\ Only("application/pdf")
    /\ rResp.status = 406
    /\ rResp.body = <<>>
    /\ rSelected = 0

Invocations == {i \in 1..Len(rLog) : rLog[i].ev = "invoke"}
Decodings == {i \in 1..Len(rLog) : rLog[i].ev = "decode"}
DecodeFailed == \E i \in Decodings : rLog[i].status = DecodeError.status

====
